---- MODULE Spec2Model ----
(***************************************************************************)
(* Model of torchtune/data/_utils.py: truncate, split_text_by_image_tag,   *)
(* validate_messages and the deprecated decorator.                         *)
(*                                                                         *)
(* Python values are represented as follows.                               *)
(*   list / str      a TLA+ sequence (a str is a sequence of characters)   *)
(*   Optional[x]     a sequence of length 0 (None) or 1 (the value)        *)
(*   a call outcome  a record whose field "raised" is "none" when the call *)
(*                   returned and the exception's type when it raised      *)
(***************************************************************************)
EXTENDS Integers, Sequences, FiniteSets

VARIABLES pc, messages, vresult, tokens, max_seq_len, eos_id, tresult,
          content, image_tag, sresult, decorators, wrappers, warnings,
          calls, invocations

vars == <<pc, messages, vresult, tokens, max_seq_len, eos_id, tresult,
          content, image_tag, sresult, decorators, wrappers, warnings,
          calls, invocations>>

validateVars == <<messages, vresult>>
truncateVars == <<tokens, max_seq_len, eos_id, tresult>>
splitVars == <<content, image_tag, sresult>>
deprecatedVars == <<decorators, wrappers, warnings, calls, invocations>>

(***************************************************************************)
(* Bounds of the model.                                                    *)
(***************************************************************************)
MaxMessages == 4
MaxTokens == 3
MaxToken == 2
MaxContent == 5
MaxTag == 2
MaxCalls == 3
MaxDecorators == 2

Min(a, b) == IF a < b THEN a ELSE b

SeqsUpTo(S, n) == UNION {[1..k -> S] : k \in 0..n}

(***************************************************************************)
(* validate_messages                                                       *)
(***************************************************************************)
Roles == {"system", "user", "assistant"}

\* The content of a message: a list of content items, possibly empty.
Contents == {<<>>, <<"text">>}

Message == [role : Roles, content : Contents]

\* The call returned None.
Returned == [raised |-> "none", kind |-> "none", at |-> <<>>]

\* raise ValueError(...): kind names the message text, at lists the numbers
\* the f-string formats, in the order it formats them.
ValueError(kind, at) == [raised |-> "ValueError", kind |-> kind, at |-> at]

\* The body of the for loop for the message at 0-based index i; the result is
\* the exception it raises, or Returned when it falls through to line 120.
LoopBody(message, i, last_turn) ==
  IF message.role = "assistant" /\ last_turn # "user"
  THEN ValueError("AssistantBeforeUser", <<i>>)
  ELSE IF message.role = "user" /\ last_turn = "user"
  THEN ValueError("ConsecutiveUser", <<i, i - 1>>)
  ELSE IF message.role = "system" /\ i > 0
  THEN ValueError("MisplacedSystem", <<i>>)
  ELSE Returned

\* Scan without the assignment of line 120: last_turn keeps its first value.
RECURSIVE Scan_StaleLastTurn(_, _, _)
Scan_StaleLastTurn(msgs, i, last_turn) ==
  IF i >= Len(msgs) THEN Returned
  ELSE LET r == LoopBody(msgs[i + 1], i, last_turn) IN
       IF r # Returned THEN r
       ELSE Scan_StaleLastTurn(msgs, i + 1, last_turn)

\* The for loop from 0-based index i on, entered with the given last_turn.
RECURSIVE Scan(_, _, _)
Scan(msgs, i, last_turn) ==
  IF i >= Len(msgs) THEN Returned
  ELSE LET r == LoopBody(msgs[i + 1], i, last_turn) IN
       IF r # Returned THEN r
       ELSE Scan(msgs, i + 1, msgs[i + 1].role)

\* validate_messages without the length check of lines 101-104.
validate_messages_NoLengthCheck(msgs) == Scan(msgs, 0, "assistant")

validate_messages(msgs) ==
  IF Len(msgs) < 2
  THEN ValueError("TooShort", <<Len(msgs)>>)
  ELSE Scan(msgs, 0, "assistant")

\* The value of a result variable before the call.
NotCalled == [raised |-> "pending", kind |-> "none", at |-> <<>>]
NoValue == [raised |-> "pending", value |-> <<>>]

ValidateIdle == messages = <<>> /\ vresult = NotCalled
TruncateIdle ==
  tokens = <<>> /\ max_seq_len = 0 /\ eos_id = <<>> /\ tresult = NoValue
SplitIdle == content = <<>> /\ image_tag = <<>> /\ sresult = NoValue
DeprecatedIdle ==
  /\ decorators = <<>> /\ wrappers = {} /\ warnings = <<>> /\ calls = <<>>
  /\ invocations = <<>>

InitValidate ==
  /\ pc = "call"
  /\ messages \in SeqsUpTo(Message, MaxMessages)
  /\ vresult = NotCalled
  /\ TruncateIdle /\ SplitIdle /\ DeprecatedIdle

CallValidate ==
  /\ pc = "call"
  /\ vresult' = validate_messages(messages)
  /\ pc' = "done"
  /\ UNCHANGED <<messages, truncateVars, splitVars, deprecatedVars>>

NextValidate == CallValidate

SpecValidate == InitValidate /\ [][NextValidate]_vars

(***************************************************************************)
(* truncate                                                                *)
(***************************************************************************)
Tokens == 0..MaxToken

\* list[:n]: the first n elements for n >= 0, all but the last -n for n < 0.
Slice(list, n) ==
  LET stop == IF n >= 0 THEN Min(n, Len(list))
              ELSE IF Len(list) + n > 0 THEN Len(list) + n ELSE 0
  IN SubSeq(list, 1, stop)

Value(v) == [raised |-> "none", value |-> v]
Raise(type) == [raised |-> type, value |-> <<>>]

\* truncate that tests eos_id for truth, so that the token 0 counts as absent.
truncate_EosTruthy(toks, n, eos) ==
  LET tokens_truncated == Slice(toks, n) IN
  IF eos # <<>> /\ eos[1] # 0
  THEN IF tokens_truncated = <<>> THEN Raise("IndexError")
       ELSE IF tokens_truncated[Len(tokens_truncated)] # eos[1]
       THEN Value([tokens_truncated EXCEPT ![Len(tokens_truncated)] = eos[1]])
       ELSE Value(tokens_truncated)
  ELSE Value(tokens_truncated)

\* truncate that appends eos_id instead of overwriting the last token.
truncate_AppendsEos(toks, n, eos) ==
  LET tokens_truncated == Slice(toks, n) IN
  IF eos # <<>>
  THEN IF tokens_truncated = <<>> THEN Raise("IndexError")
       ELSE IF tokens_truncated[Len(tokens_truncated)] # eos[1]
       THEN Value(Append(tokens_truncated, eos[1]))
       ELSE Value(tokens_truncated)
  ELSE Value(tokens_truncated)

\* truncate that skips the replacement when the prefix is empty.
truncate_GuardsEmpty(toks, n, eos) ==
  LET tokens_truncated == Slice(toks, n) IN
  IF eos # <<>> /\ tokens_truncated # <<>>
        /\ tokens_truncated[Len(tokens_truncated)] # eos[1]
  THEN Value([tokens_truncated EXCEPT ![Len(tokens_truncated)] = eos[1]])
  ELSE Value(tokens_truncated)

\* eos is <<>> for eos_id = None.  Reading tokens_truncated[-1] of an empty
\* list raises IndexError.
truncate(toks, n, eos) ==
  LET tokens_truncated == Slice(toks, n) IN
  IF eos # <<>>
  THEN IF tokens_truncated = <<>> THEN Raise("IndexError")
       ELSE IF tokens_truncated[Len(tokens_truncated)] # eos[1]
       THEN Value([tokens_truncated EXCEPT ![Len(tokens_truncated)] = eos[1]])
       ELSE Value(tokens_truncated)
  ELSE Value(tokens_truncated)

InitTruncate ==
  /\ pc = "call"
  /\ tokens \in SeqsUpTo(Tokens, MaxTokens)
  /\ max_seq_len \in (-1)..(MaxTokens + 1)
  /\ eos_id \in {<<>>} \cup {<<e>> : e \in Tokens}
  /\ tresult = NoValue
  /\ ValidateIdle /\ SplitIdle /\ DeprecatedIdle

CallTruncate ==
  /\ pc = "call"
  /\ tresult' = truncate(tokens, max_seq_len, eos_id)
  /\ pc' = "done"
  /\ UNCHANGED <<tokens, max_seq_len, eos_id, validateVars, splitVars,
                 deprecatedVars>>

NextTruncate == CallTruncate

SpecTruncate == InitTruncate /\ [][NextTruncate]_vars

(***************************************************************************)
(* split_text_by_image_tag                                                 *)
(***************************************************************************)
Chars == {"a", "b"}

\* str.find(sub, start) with 1-based positions; 0 when sub does not occur.
Find(str, sub, start) ==
  LET hits == {q \in start..(Len(str) - Len(sub) + 1) :
                 SubSeq(str, q, q + Len(sub) - 1) = sub}
  IN IF hits = {} THEN 0 ELSE CHOOSE q \in hits : \A r \in hits : q <= r

\* str.split(sep) for a non-empty sep, from the 1-based position start on.
RECURSIVE StrSplit(_, _, _)
StrSplit(str, sep, start) ==
  LET q == Find(str, sep, start) IN
  IF q = 0 THEN <<SubSeq(str, start, Len(str))>>
  ELSE <<SubSeq(str, start, q - 1)>> \o StrSplit(str, sep, q + Len(sep))

TextItem(substr) == [type |-> "text", content |-> substr]
ImageItem == [type |-> "image"]

\* The loop without the test of line 73: empty fragments become text items.
RECURSIVE final_content_list_KeepsEmpty(_, _)
final_content_list_KeepsEmpty(split_content, i) ==
  IF i >= Len(split_content) THEN <<>>
  ELSE LET substr == split_content[i + 1] IN
       <<TextItem(substr)>>
       \o (IF i < Len(split_content) - 1 THEN <<ImageItem>> ELSE <<>>)
       \o final_content_list_KeepsEmpty(split_content, i + 1)

\* The loop with the test of line 75 off by one: an image item follows the
\* last fragment too.
RECURSIVE final_content_list_ImageAfterLast(_, _)
final_content_list_ImageAfterLast(split_content, i) ==
  IF i >= Len(split_content) THEN <<>>
  ELSE LET substr == split_content[i + 1] IN
       (IF Len(substr) > 0 THEN <<TextItem(substr)>> ELSE <<>>)
       \o (IF i < Len(split_content) THEN <<ImageItem>> ELSE <<>>)
       \o final_content_list_ImageAfterLast(split_content, i + 1)

\* The for loop over split_content from 0-based index i on.
RECURSIVE final_content_list(_, _)
final_content_list(split_content, i) ==
  IF i >= Len(split_content) THEN <<>>
  ELSE LET substr == split_content[i + 1] IN
       (IF Len(substr) > 0 THEN <<TextItem(substr)>> ELSE <<>>)
       \o (IF i < Len(split_content) - 1 THEN <<ImageItem>> ELSE <<>>)
       \o final_content_list(split_content, i + 1)

\* str.split raises ValueError("empty separator") for an empty image_tag.
split_text_by_image_tag(str, tag) ==
  IF tag = <<>> THEN Raise("ValueError")
  ELSE Value(final_content_list(StrSplit(str, tag, 1), 0))

InitSplit ==
  /\ pc = "call"
  /\ content \in SeqsUpTo(Chars, MaxContent)
  /\ image_tag \in SeqsUpTo(Chars, MaxTag)
  /\ sresult = NoValue
  /\ ValidateIdle /\ TruncateIdle /\ DeprecatedIdle

CallSplit ==
  /\ pc = "call"
  /\ sresult' = split_text_by_image_tag(content, image_tag)
  /\ pc' = "done"
  /\ UNCHANGED <<content, image_tag, validateVars, truncateVars,
                 deprecatedVars>>

NextSplit == CallSplit

SpecSplit == InitSplit /\ [][NextSplit]_vars

(***************************************************************************)
(* deprecated                                                              *)
(*                                                                         *)
(* decorators[d] is the closure of the d-th call of deprecated(msg): its   *)
(* msg and the keys held by the lru_cache of its warn function, the most   *)
(* recently used last.  wrappers holds the wrapper functions made so far,  *)
(* each the pair of its decorator and the object it wraps.  warnings is    *)
(* the log of warnings issued, invocations the log of calls of wrapped     *)
(* objects and calls the log of calls of wrappers.                         *)
(***************************************************************************)
Objects == {"A", "B"}
Msgs == {""}

\* @lru_cache(maxsize=1)
Maxsize == 1

\* The keys of an lru_cache after a call with the given key: the key becomes
\* the most recently used and the least recently used keys beyond maxsize
\* are evicted.
LruKeys(keys, key) ==
  LET others == SelectSeq(keys, LAMBDA k : k # key)
      all == Append(others, key)
  IN IF Len(all) > Maxsize THEN SubSeq(all, Len(all) - Maxsize + 1, Len(all))
     ELSE all

LruHit(keys, key) == \E k \in 1..Len(keys) : keys[k] = key

\* The FutureWarning of lines 136-141.
Warning(obj, msg) == [name |-> obj, msg |-> msg]

\* What calling obj returns.
ObjResult(obj) == <<"result of", obj>>

\* deprecated(msg): a new decorator with a warn function of its own.
Deprecated(msg) ==
  /\ pc = "run"
  /\ Len(decorators) < MaxDecorators
  /\ decorators' = Append(decorators, [msg |-> msg, cache |-> <<>>])
  /\ UNCHANGED <<pc, wrappers, warnings, calls, invocations, validateVars,
                 truncateVars, splitVars>>

\* decorator(obj): a wrapper of obj that shares the decorator's warn.
Decorator(d, obj) ==
  /\ pc = "run"
  /\ d \in 1..Len(decorators)
  /\ [decorator |-> d, obj |-> obj] \notin wrappers
  /\ wrappers' = wrappers \cup {[decorator |-> d, obj |-> obj]}
  /\ UNCHANGED <<pc, decorators, warnings, calls, invocations, validateVars,
                 truncateVars, splitVars>>

\* wrapper(*args, **kwargs): warn(obj) through the cache, then obj(...).
Wrapper(w) ==
  /\ pc = "run"
  /\ w \in wrappers
  /\ Len(calls) < MaxCalls
  /\ LET d == w.decorator
         hit == LruHit(decorators[d].cache, w.obj)
     IN /\ warnings' = IF hit THEN warnings
                       ELSE Append(warnings, Warning(w.obj, decorators[d].msg))
        /\ decorators' = [decorators EXCEPT
                            ![d].cache = LruKeys(decorators[d].cache, w.obj)]
        /\ invocations' = Append(invocations, w.obj)
        /\ calls' = Append(calls, [wrapper |-> w, warned |-> ~hit,
                                   result |-> ObjResult(w.obj)])
  /\ UNCHANGED <<pc, wrappers, validateVars, truncateVars, splitVars>>

InitDeprecated ==
  /\ pc = "run"
  /\ DeprecatedIdle
  /\ ValidateIdle /\ TruncateIdle /\ SplitIdle

NextDeprecated ==
  \/ \E msg \in Msgs : Deprecated(msg)
  \/ \E d \in 1..MaxDecorators, obj \in Objects : Decorator(d, obj)
  \/ \E w \in wrappers : Wrapper(w)

SpecDeprecated == InitDeprecated /\ [][NextDeprecated]_vars

(***************************************************************************)
(* Properties of validate_messages                                         *)
(***************************************************************************)
RoleAt(msgs, i) == msgs[i + 1].role

\* An optional system message at index 0, then user, assistant, user, ...
Alternating(msgs) ==
  LET first == IF Len(msgs) > 0 /\ RoleAt(msgs, 0) = "system" THEN 1 ELSE 0 IN
  \A i \in first..(Len(msgs) - 1) :
    RoleAt(msgs, i) = IF (i - first) % 2 = 0 THEN "user" ELSE "assistant"

WellFormed(msgs) == Len(msgs) >= 2 /\ Alternating(msgs)

\* C1: validate_messages returns successfully exactly for the sequences of at
\* least 2 messages whose roles are an optional system message at index 0
\* followed by alternating user/assistant messages starting with user; every
\* other sequence is rejected with an error.
C1_AcceptsExactlyWellFormed ==
  pc = "done" /\ vresult # NotCalled =>
    /\ (vresult = Returned) <=> WellFormed(messages)
    /\ ~WellFormed(messages) => vresult.raised = "ValueError"

C1_Witness ==
  /\ pc = "done"
  /\ Len(messages) = 4
  /\ [i \in 1..4 |-> messages[i].role] = <<"user", "assistant", "user", "assistant">>
  /\ vresult = Returned

\* The rule the message at 0-based index i breaks, judged from the roles at
\* i and i-1 alone.
Breaks(msgs, i) ==
  \/ RoleAt(msgs, i) = "assistant" /\ (i = 0 \/ RoleAt(msgs, i - 1) # "user")
  \/ RoleAt(msgs, i) = "user" /\ i > 0 /\ RoleAt(msgs, i - 1) = "user"
  \/ RoleAt(msgs, i) = "system" /\ i > 0

ErrorAt(msgs, i) ==
  IF RoleAt(msgs, i) = "assistant" THEN ValueError("AssistantBeforeUser", <<i>>)
  ELSE IF RoleAt(msgs, i) = "user" THEN ValueError("ConsecutiveUser", <<i, i - 1>>)
  ELSE ValueError("MisplacedSystem", <<i>>)

ExpectedError(msgs) ==
  IF Len(msgs) < 2 THEN ValueError("TooShort", <<Len(msgs)>>)
  ELSE LET bad == {i \in 0..(Len(msgs) - 1) : Breaks(msgs, i)} IN
       IF bad = {} THEN Returned
       ELSE ErrorAt(msgs, CHOOSE i \in bad : \A j \in bad : i <= j)

\* Replacing the messages after the reported index by any others (keeping at
\* least 2 messages) leaves the reported error the same.
LaterMessagesIrrelevant(msgs, err) ==
  err.kind = "TooShort" \/
  LET prefix == SubSeq(msgs, 1, err.at[1] + 1) IN
  \A rest \in SeqsUpTo(Message, MaxMessages - Len(prefix)) :
    Len(prefix \o rest) >= 2 => validate_messages(prefix \o rest) = err

\* C2: a rejection reports TooShort when there are fewer than 2 messages, and
\* otherwise the smallest index at which a rule is broken, with the kind fixed
\* by the role there; no message after that index influences the error.
C2_ReportsFirstViolation ==
  pc = "done" /\ vresult # NotCalled /\ vresult # Returned =>
    /\ vresult = ExpectedError(messages)
    /\ LaterMessagesIrrelevant(messages, vresult)

C2_Witness ==
  /\ pc = "done"
  /\ Len(messages) = 3
  /\ [i \in 1..3 |-> messages[i].role] = <<"user", "assistant", "system">>
  /\ vresult = ValueError("MisplacedSystem", <<2>>)

\* C3: every conversation validate_messages accepts contains a user message
\* immediately followed by an assistant message.
C3_AcceptedHasTurnPair ==
  pc = "done" /\ vresult = Returned =>
    \E i \in 0..(Len(messages) - 2) :
      RoleAt(messages, i) = "user" /\ RoleAt(messages, i + 1) = "assistant"

\* C4: validate_messages raises an error whenever some message of the list
\* has empty content.
C4_EmptyMessageRejected ==
  pc = "done" /\ vresult # NotCalled
    /\ (\E k \in 1..Len(messages) : messages[k].content = <<>>)
  => vresult.raised = "ValueError"

(***************************************************************************)
(* Properties of truncate                                                  *)
(***************************************************************************)
TruncateReturned == pc = "done" /\ tresult.raised = "none"

\* C5: for every token sequence, every bound n >= 0 and every eos_id, absent
\* or present, a returned sequence has length min(len(tokens), n).
C5_LengthIsMin ==
  TruncateReturned /\ max_seq_len >= 0 =>
    Len(tresult.value) = Min(Len(tokens), max_seq_len)

C5_Witness ==
  /\ TruncateReturned
  /\ Len(tokens) = 3 /\ max_seq_len = 2 /\ eos_id # <<>>
  /\ tokens[2] # eos_id[1]
  /\ Len(tresult.value) = 2

\* C6: for n >= 1, with eos_id given a non-empty result ends with eos_id and
\* agrees with tokens at every other position; with eos_id absent the result
\* is the prefix of tokens, so it is tokens itself when n >= len(tokens).  A
\* prefix that already ends with eos_id is returned unchanged and the result
\* is never longer than the prefix.
C6_EosOverwritesLast ==
  TruncateReturned /\ max_seq_len >= 1 =>
    LET result == tresult.value
        prefix == SubSeq(tokens, 1, Min(Len(tokens), max_seq_len))
    IN /\ eos_id # <<>> /\ result # <<>> =>
            /\ result[Len(result)] = eos_id[1]
            /\ \A k \in 1..(Len(result) - 1) : result[k] = tokens[k]
       /\ eos_id = <<>> => result = prefix
       /\ eos_id = <<>> /\ max_seq_len >= Len(tokens) => result = tokens
       /\ eos_id # <<>> /\ prefix # <<>> /\ prefix[Len(prefix)] = eos_id[1]
            => result = prefix
       /\ Len(result) <= Len(prefix)

C6_Witness ==
  /\ TruncateReturned
  /\ tokens = <<1, 2, 1>> /\ max_seq_len = 2 /\ eos_id = <<0>>
  /\ tresult.value = <<1, 0>>

\* C7: with eos_id given and an empty truncated prefix (max_seq_len = 0 or
\* tokens empty) truncate raises an error; it returns no sequence, neither an
\* empty one nor one holding eos_id.
C7_EmptyPrefixWithEosRaises ==
  pc = "done" /\ tresult # NoValue /\ eos_id # <<>>
     /\ (max_seq_len = 0 \/ tokens = <<>>)
  => tresult = Raise("IndexError")

C7_Witness ==
  /\ pc = "done"
  /\ tokens = <<0, 1>> /\ max_seq_len = 0 /\ eos_id = <<1>>
  /\ tresult.raised = "IndexError"

(***************************************************************************)
(* Properties of split_text_by_image_tag                                   *)
(***************************************************************************)
SplitReturned == pc = "done" /\ sresult.raised = "none"

OccursAt(str, tag, p) ==
  p >= 1 /\ p + Len(tag) - 1 <= Len(str) /\ \A k \in 1..Len(tag) : str[p + k - 1] = tag[k]

\* The start positions of the non-overlapping occurrences of tag in str, in
\* a left-to-right scan from position p.
RECURSIVE Occurrences(_, _, _)
Occurrences(str, tag, p) ==
  IF p > Len(str) THEN <<>>
  ELSE IF OccursAt(str, tag, p) THEN <<p>> \o Occurrences(str, tag, p + Len(tag))
  ELSE Occurrences(str, tag, p + 1)

\* The fragment before occurrence k (1-based); the one after the last
\* occurrence for k = Len(occ) + 1.
Fragment(str, tag, occ, k) ==
  SubSeq(str, IF k = 1 THEN 1 ELSE occ[k - 1] + Len(tag),
              IF k > Len(occ) THEN Len(str) ELSE occ[k] - 1)

Images(list) == {k \in 1..Len(list) : list[k].type = "image"}
Texts(list) == {k \in 1..Len(list) : list[k].type = "text"}

Contains(str, tag) == \E p \in 1..Len(str) : OccursAt(str, tag, p)

\* C8: for a non-empty image_tag the output holds, in left-to-right order,
\* one image item per non-overlapping occurrence of the tag and one text item
\* per non-empty fragment between occurrences: no text item is empty, no two
\* text items are adjacent, content without the tag gives one text item with
\* the whole string, and the empty string gives the empty list.
C8_SegmentsFollowOccurrences ==
  SplitReturned /\ image_tag # <<>> =>
    LET out == sresult.value
        occ == Occurrences(content, image_tag, 1)
        nonEmpty == {k \in 1..(Len(occ) + 1) :
                       Fragment(content, image_tag, occ, k) # <<>>}
        \* the position in out of the image item of occurrence k
        imagePos(k) == k + Cardinality({j \in nonEmpty : j <= k})
        textPos(k) == k + Cardinality({j \in nonEmpty : j < k})
    IN /\ Cardinality(Images(out)) = Len(occ)
       /\ Cardinality(Texts(out)) = Cardinality(nonEmpty)
       /\ Len(out) = Len(occ) + Cardinality(nonEmpty)
       /\ \A k \in 1..Len(occ) : out[imagePos(k)] = ImageItem
       /\ \A k \in nonEmpty :
            out[textPos(k)] = TextItem(Fragment(content, image_tag, occ, k))
       /\ \A k \in Texts(out) :
            out[k].content # <<>> /\ ~Contains(out[k].content, image_tag)
       /\ \A k \in 1..(Len(out) - 1) : ~(k \in Texts(out) /\ k + 1 \in Texts(out))
       /\ ~Contains(content, image_tag) /\ content # <<>>
            => out = <<TextItem(content)>>
       /\ content = <<>> => out = <<>>

C8_Witness ==
  /\ SplitReturned
  /\ content = <<"a", "a", "b", "a">> /\ image_tag = <<"a">>
  /\ sresult.value = <<ImageItem, ImageItem, TextItem(<<"b">>), ImageItem>>

\* Writing the text of each text item and image_tag for each image item.
RECURSIVE Rejoin(_, _)
Rejoin(list, tag) ==
  IF list = <<>> THEN <<>>
  ELSE (IF Head(list).type = "text" THEN Head(list).content ELSE tag)
       \o Rejoin(Tail(list), tag)

\* C9: for a non-empty image_tag, concatenating the items of the output in
\* order, a text item as its text and an image item as image_tag, gives
\* content back.
C9_RoundTrip ==
  SplitReturned /\ image_tag # <<>> =>
    Rejoin(sresult.value, image_tag) = content

C9_Witness ==
  /\ SplitReturned
  /\ content = <<"a", "b", "a", "a", "b">> /\ image_tag = <<"a", "b">>
  /\ sresult.value = <<ImageItem, TextItem(<<"a">>), ImageItem>>

(***************************************************************************)
(* Properties of deprecated                                                *)
(***************************************************************************)
\* C10: the warning of a wrapped object is issued on its first call and on
\* no later call, also when one decorator wraps two objects whose calls are
\* interleaved; every call invokes the wrapped object and returns its result.
C10_WarnsOnce ==
  /\ \A k \in 1..Len(calls) :
       /\ calls[k].warned <=>
            ~\E j \in 1..(k - 1) : calls[j].wrapper = calls[k].wrapper
       /\ invocations[k] = calls[k].wrapper.obj
       /\ calls[k].result = ObjResult(calls[k].wrapper.obj)
  /\ Len(invocations) = Len(calls)

====
